---- MODULE Spec2Model ----
(***************************************************************************)
(* A model of the Flask inference service of app.py: the /predict handler  *)
(* (validation, derived features, scaling, KSDrift test, drift table,      *)
(* classification, probability, rendering) and the two Prometheus          *)
(* counters it updates.                                                    *)
(*                                                                         *)
(* Units.  p-values are integers in units of 1/10000 (500 is 0.05), a      *)
(* probability is an integer in units of 1/100000 (63214 is 0.63214), a    *)
(* submitted number is an integer count of halves (241 is "120.5").        *)
(* An optional value (Python's None or a value) is <<>> or <<v>>.          *)
(***************************************************************************)
EXTENDS Integers, Sequences, FiniteSets, TLC

None == <<>>
Some(x) == <<x>>
Get(o) == o[1]

\* ------------------------------------------------------------------------
\* Bounds of the exploration
\* ------------------------------------------------------------------------
\* A new request is admitted only while both counters are below MaxCount.
MaxCount == 2
\* Besides ExtraForms, a submitted form differs from BaseForm in at most
\* MaxPerturbed fields.
MaxPerturbed == 1

\* The worker threads of the server that handle requests: Spec runs one,
\* SpecConc runs all of AllThreads.
Threads == {"w1"}
AllThreads == {"w1", "w2"}

\* ------------------------------------------------------------------------
\* Feature definitions (app.py 90-102) and the form fields in the order the
\* handler reads them (app.py 209-230)
\* ------------------------------------------------------------------------
FEATURE_NAMES ==
    <<"Age", "Fare", "Pclass", "Sex", "Embarked", "Familysize",
      "Isalone", "HasCabin", "Title", "Pclass_Fare", "Age_Fare">>

FORM_FIELDS ==
    <<"Age", "Fare", "Pclass", "Sex", "Embarked", "Familysize",
      "Isalone", "HasCabin", "Title">>

FieldSet == {FORM_FIELDS[i] : i \in 1..Len(FORM_FIELDS)}

\* The keys a submitted form can carry: the nine fields, and keys named like
\* the two derived features, which the handler never reads.
FormKeys == FieldSet \cup {"Pclass_Fare", "Age_Fare"}

\* alpha = 0.05 of the drift table, in units of 1/10000
alpha == 500

\* ------------------------------------------------------------------------
\* Submitted form values.  kind "int": an integer literal such as "29";
\* kind "dec": a decimal literal such as "120.5" or "1.0"; kind "text": a
\* string that is no number; kind "missing": the field is not in the form.
\* h is the number in halves (0 for text and missing).
\* ------------------------------------------------------------------------
IntLit(n) == [kind |-> "int", h |-> 2 * n]
DecLit(h) == [kind |-> "dec", h |-> h]
Text == [kind |-> "text", h |-> 0]
Missing == [kind |-> "missing", h |-> 0]

BaseForm ==
    [f \in FormKeys |->
        CASE f = "Age" -> IntLit(29)
          [] f = "Fare" -> IntLit(72)
          [] f = "Pclass" -> IntLit(1)
          [] f = "Sex" -> IntLit(0)
          [] f = "Embarked" -> IntLit(0)
          [] f = "Familysize" -> IntLit(1)
          [] f = "Isalone" -> IntLit(1)
          [] f = "HasCabin" -> IntLit(1)
          [] f = "Title" -> IntLit(0)
          [] OTHER -> Missing]

Alternatives(f) ==
    CASE f = "Age" ->
            {IntLit(-1), IntLit(0), IntLit(120), IntLit(121),
             DecLit(-1), DecLit(241), Missing, Text}
      [] f = "Fare" ->
            {IntLit(-1), IntLit(0), IntLit(10000), IntLit(10001), IntLit(50000),
             DecLit(-1), DecLit(20001), Missing}
      [] f = "Pclass" ->
            {IntLit(0), IntLit(2), IntLit(3), IntLit(4), DecLit(2), Missing}
      [] f = "Sex" -> {IntLit(1), IntLit(9), DecLit(2)}
      [] f = "Embarked" -> {IntLit(-3), Text}
      [] f = "Familysize" ->
            {IntLit(-1), IntLit(0), DecLit(-1), DecLit(5), Missing}
      [] f = "Isalone" -> {IntLit(7), Missing}
      [] f = "HasCabin" -> {IntLit(5), DecLit(2)}
      [] f = "Title" -> {IntLit(99), Missing}

PerturbedForms ==
    UNION {
        {[f \in FormKeys |-> IF f \in S THEN g[f] ELSE BaseForm[f]] :
            g \in {x \in [S -> UNION {Alternatives(f) : f \in S}] :
                      \A f \in S : x[f] \in Alternatives(f)}}
        : S \in {T \in SUBSET FieldSet : Cardinality(T) <= MaxPerturbed}}

\* Requests with several fields away from BaseForm
ExtraForms ==
    {[BaseForm EXCEPT !["Fare"] = IntLit(50000), !["Pclass"] = IntLit(4)],
     [BaseForm EXCEPT !["Fare"] = IntLit(50000), !["Title"] = Missing],
     [BaseForm EXCEPT !["Age"] = IntLit(121), !["Fare"] = IntLit(50000)],
     [BaseForm EXCEPT !["Pclass"] = DecLit(2), !["Sex"] = Missing],
     [BaseForm EXCEPT !["Age"] = IntLit(0), !["Fare"] = IntLit(10000),
                      !["Pclass"] = IntLit(3)],
     [BaseForm EXCEPT !["Age"] = DecLit(241), !["Fare"] = DecLit(20001),
                      !["Familysize"] = DecLit(-1)],
     [BaseForm EXCEPT !["Pclass"] = IntLit(2), !["Pclass_Fare"] = IntLit(999),
                      !["Age_Fare"] = IntLit(999)]}

Forms == PerturbedForms \cup ExtraForms

\* ------------------------------------------------------------------------
\* Coercions (app.py 209-230)
\* ------------------------------------------------------------------------
\* Mutant: the float is rounded down
TruncFloor(h) == IF h >= 0 THEN h \div 2 ELSE -((1 - h) \div 2)

\* int(x) of a float: truncation toward zero
Trunc(h) == IF h >= 0 THEN h \div 2 ELSE -((-h) \div 2)

Ok(v) == [ok |-> TRUE, v |-> v, err |-> "", field |-> ""]
Err(msg, f) == [ok |-> FALSE, v |-> 0, err |-> msg, field |-> f]

\* Mutant: a missing key reads as "0", as data.get(f, "0") would
LookupWithDefault(data, f) ==
    IF data[f].kind = "missing" THEN Ok(IntLit(0)) ELSE Ok(data[f])

\* data[f]: a missing key raises (werkzeug's BadRequestKeyError)
Lookup(data, f) ==
    IF data[f].kind = "missing"
    THEN Err("400 Bad Request: missing form key", f)
    ELSE Ok(data[f])

\* int(float(s))
IntOfFloat(raw, f) ==
    IF raw.kind = "text"
    THEN Err("could not convert string to float", f)
    ELSE Ok(Trunc(raw.h))

\* int(s): only an integer literal parses
IntOf(raw, f) ==
    IF raw.kind = "int"
    THEN Ok(raw.h \div 2)
    ELSE Err("invalid literal for int() with base 10", f)

\* Mutant: every field is read with int(float(s))
CoerceAllFloat(raw, f) == IntOfFloat(raw, f)

Coerce(raw, f) ==
    IF f \in {"Age", "Fare", "Familysize"} THEN IntOfFloat(raw, f) ELSE IntOf(raw, f)

\* Mutant: the upper bound of Age is exclusive (0 <= Age < 120)
CheckBoundsAgeExclusive(f, v) ==
    CASE f = "Age" ->
            IF ~(0 <= v /\ v < 120)
            THEN Err("Age out of valid range (0-120).", f) ELSE Ok(v)
      [] f = "Fare" ->
            IF ~(0 <= v /\ v <= 10000)
            THEN Err("Fare out of valid range (0-10000).", f) ELSE Ok(v)
      [] f = "Pclass" ->
            IF v \notin {1, 2, 3}
            THEN Err("Pclass must be 1, 2, or 3.", f) ELSE Ok(v)
      [] f = "Familysize" ->
            IF v < 0
            THEN Err("Family Size cannot be negative.", f) ELSE Ok(v)
      [] OTHER -> Ok(v)

\* The bound checks that follow the coercions
CheckBounds(f, v) ==
    CASE f = "Age" ->
            IF ~(0 <= v /\ v <= 120)
            THEN Err("Age out of valid range (0-120).", f) ELSE Ok(v)
      [] f = "Fare" ->
            IF ~(0 <= v /\ v <= 10000)
            THEN Err("Fare out of valid range (0-10000).", f) ELSE Ok(v)
      [] f = "Pclass" ->
            IF v \notin {1, 2, 3}
            THEN Err("Pclass must be 1, 2, or 3.", f) ELSE Ok(v)
      [] f = "Familysize" ->
            IF v < 0
            THEN Err("Family Size cannot be negative.", f) ELSE Ok(v)
      [] OTHER -> Ok(v)

\* One field: look it up, coerce it, check its bounds
ReadField(data, f) ==
    LET got == Lookup(data, f) IN
    IF ~got.ok THEN got
    ELSE LET c == Coerce(got.v, f) IN
         IF ~c.ok THEN c ELSE CheckBounds(f, c.v)

\* Mutant: every field is checked and the last failure is the one reported
ValidateFormLastFailure(data) ==
    LET bad == {i \in 1..Len(FORM_FIELDS) : ~ReadField(data, FORM_FIELDS[i]).ok} IN
    IF bad # {}
    THEN LET i == CHOOSE j \in bad : \A k \in bad : j >= k
         IN  [ok |-> FALSE, error |-> ReadField(data, FORM_FIELDS[i]),
              fields |-> [f \in FieldSet |-> 0]]
    ELSE [ok |-> TRUE, error |-> Ok(0),
          fields |-> [f \in FieldSet |-> ReadField(data, f).v]]

\* The fields are read in the order of FORM_FIELDS and the first failure
\* raises: the result is that failure, or the nine coerced integers.
ValidateForm(data) ==
    LET bad == {i \in 1..Len(FORM_FIELDS) : ~ReadField(data, FORM_FIELDS[i]).ok} IN
    IF bad # {}
    THEN LET i == CHOOSE j \in bad : \A k \in bad : j <= k
         IN  [ok |-> FALSE, error |-> ReadField(data, FORM_FIELDS[i]),
              fields |-> [f \in FieldSet |-> 0]]
    ELSE [ok |-> TRUE, error |-> Ok(0),
          fields |-> [f \in FieldSet |-> ReadField(data, f).v]]

\* ------------------------------------------------------------------------
\* Server-side interaction features and the feature row (app.py 232-240)
\* ------------------------------------------------------------------------
\* Mutant: the class and the fare are added
PclassPlusFare(v) == v["Pclass"] + v["Fare"]

Pclass_Fare(v) == v["Pclass"] * v["Fare"]
Age_Fare(v) == v["Age"] * v["Fare"]

BuildFeatures(v) ==
    <<v["Age"], v["Fare"], v["Pclass"], v["Sex"], v["Embarked"], v["Familysize"],
      v["Isalone"], v["HasCabin"], v["Title"], Pclass_Fare(v), Age_Fare(v)>>

\* ------------------------------------------------------------------------
\* The drift detector (app.py 166, 249-252)
\* ------------------------------------------------------------------------
\* p_val = 0.05 given to KSDrift, in units of 1/10000
ksd_p_val == 500

\* The p-values a K-S test of one scaled row can give for one feature, and
\* the vectors explored: every feature at 0.5 but one, the first or the last.
PVals == {44, 300, 500, 10000}
PVector(n, k, p) == [i \in 1..n |-> IF i = k THEN p ELSE 5000]
PVectors ==
    {PVector(Len(FEATURE_NAMES), k, p) : k \in {1, Len(FEATURE_NAMES)}, p \in PVals}

\* KSDrift.predict on a batch: the detector is built at line 166 with the
\* library's default correction (Bonferroni), so its aggregate is_drift
\* compares every p-value with p_val / n_features.
KSDriftPredict(pv) ==
    [raised |-> FALSE,
     is_drift |-> Some(IF \E i \in 1..Len(pv) : pv[i] * Len(FEATURE_NAMES) < ksd_p_val
                       THEN 1 ELSE 0),
     p_val |-> Some(pv)]

\* What ksd.predict can hand back to lines 249-252: a K-S result; a result
\* with one p-value too few; a result whose "data" lacks p_val, is_drift or
\* both (the reads at 250-252 default to None); or an exception.
DetectorOutcomes ==
    {KSDriftPredict(pv) : pv \in PVectors}
    \cup {KSDriftPredict(PVector(Len(FEATURE_NAMES) - 1, 1, 300))}
    \cup {[raised |-> FALSE, is_drift |-> Some(b), p_val |-> None] : b \in {0, 1}}
    \cup {[raised |-> FALSE, is_drift |-> None,
           p_val |-> Some(PVector(Len(FEATURE_NAMES), 1, 300))]}
    \cup {[raised |-> FALSE, is_drift |-> None, p_val |-> None]}
    \cup {[raised |-> TRUE, is_drift |-> None, p_val |-> None]}

\* ------------------------------------------------------------------------
\* The drift table (app.py 254-293)
\* ------------------------------------------------------------------------
\* f"{pv:.3f}": the p-value rounded to thousandths (ties to even)
Format3(pv) ==
    LET q == pv \div 10
        r == pv % 10
    IN  IF r < 5 THEN q
        ELSE IF r > 5 THEN q + 1
        ELSE IF q % 2 = 0 THEN q ELSE q + 1

Min(a, b) == IF a <= b THEN a ELSE b

\* Mutant: the loop stops one pair early
DriftRowsDropLast(p_vals) ==
    IF p_vals = None THEN <<>>
    ELSE LET pv_list == Get(p_vals) IN
         [i \in 1..(Min(Len(FEATURE_NAMES), Len(pv_list)) - 1) |->
            [feature |-> FEATURE_NAMES[i],
             pval |-> Format3(pv_list[i]),
             flagged |-> pv_list[i] < alpha]]

\* zip(FEATURE_NAMES, pv_list): one row per pair, up to the shorter of the two
DriftRows(p_vals) ==
    IF p_vals = None THEN <<>>
    ELSE LET pv_list == Get(p_vals) IN
         [i \in 1..Min(Len(FEATURE_NAMES), Len(pv_list)) |->
            [feature |-> FEATURE_NAMES[i],
             pval |-> Format3(pv_list[i]),
             flagged |-> pv_list[i] < alpha]]

RECURSIVE FlaggedOf(_)
FlaggedOf(rows) ==
    IF rows = <<>> THEN <<>>
    ELSE LET rest == FlaggedOf(SubSeq(rows, 1, Len(rows) - 1))
             last == rows[Len(rows)]
         IN  IF last.flagged THEN Append(rest, last.feature) ELSE rest

\* Mutant: an increment that is lost
IncLost(count) == count

\* Counter.inc() of prometheus_client: the addition is made under the
\* counter's lock, so it is one step whatever the other threads do.
Inc(count) == count + 1

\* ------------------------------------------------------------------------
\* Drift counter and drift payload (app.py 295-307)
\* ------------------------------------------------------------------------
\* Mutant: any aggregate the detector returned counts as drift
DriftDetectedIfPresent(is_drift) == is_drift # None

\* if is_drift is not None and is_drift == 1
DriftDetected(is_drift) == is_drift # None /\ Get(is_drift) = 1

\* Mutant: a result without is_drift is shown as drift
DriftPayloadNoneIsDrift(is_drift, rows) ==
    [is_drift |-> (is_drift # Some(0)),
     alpha |-> alpha \div 100,
     rows |-> rows,
     flagged_features |-> FlaggedOf(rows)]

DriftPayload(is_drift, rows) ==
    [is_drift |-> (is_drift # None /\ Get(is_drift) = 1),
     alpha |-> alpha \div 100,
     rows |-> rows,
     flagged_features |-> FlaggedOf(rows)]

\* ------------------------------------------------------------------------
\* Inference (app.py 309-328)
\* ------------------------------------------------------------------------
\* model.predict(features)[0]: a class, or an exception
ClassifierOutcomes == {"raise", "0", "1"}
ClassOf(o) == IF o = "1" THEN 1 ELSE 0

\* Mutant: the prediction is counted twice
CountPredictionTwice(count) == Inc(Inc(count))

\* line 316: prediction_count.inc(), right after the classification
CountPrediction(count) == Inc(count)

PredictionLabel(yhat) == IF yhat = 1 THEN "SURVIVED" ELSE "DID NOT SURVIVE"

\* model.predict_proba(features)[0, 1] in units of 1/100000, or an exception
ProbaOutcomes == {[raised |-> TRUE, p |-> 0], [raised |-> FALSE, p |-> 63214],
                  [raised |-> FALSE, p |-> 100000]}

\* f"{prob_survive * 100:.2f}": the percentage in hundredths (ties to even)
Format2Pct(p) ==
    LET q == p \div 10
        r == p % 10
    IN  IF r < 5 THEN q
        ELSE IF r > 5 THEN q + 1
        ELSE IF q % 2 = 0 THEN q ELSE q + 1

\* Mutant: without a probability the field reads 0.00 instead of None
PredictionProbPctZero(has_proba, o) ==
    IF has_proba /\ ~o.raised THEN Some(Format2Pct(o.p)) ELSE Some(0)

\* lines 322-328: None unless the model has predict_proba and it returns
PredictionProbPct(has_proba, o) ==
    IF has_proba /\ ~o.raised THEN Some(Format2Pct(o.p)) ELSE None

\* ------------------------------------------------------------------------
\* Responses (app.py 348-371)
\* ------------------------------------------------------------------------
NoResponse == [status |-> 0, prediction_label |-> None, prediction_prob |-> None,
               drift |-> None, error_text |-> None]

SuccessResponse(label, prob, payload) ==
    [status |-> 200, prediction_label |-> Some(label), prediction_prob |-> prob,
     drift |-> Some(payload), error_text |-> None]

\* Mutant: the error page is returned without the 400
ErrorResponseWithout400(msg, f) ==
    [status |-> 200, prediction_label |-> None, prediction_prob |-> None,
     drift |-> None, error_text |-> Some([msg |-> msg, field |-> f])]

ErrorResponse(msg, f) ==
    [status |-> 400, prediction_label |-> None, prediction_prob |-> None,
     drift |-> None, error_text |-> Some([msg |-> msg, field |-> f])]

\* One entry of a request's log of the collaborators it called: the function,
\* the feature row given to it (<<>> when it takes another argument) and
\* whether it returned or raised.
Call(fn, arg, res) == [fn |-> fn, arg |-> arg, res |-> res]


\* ------------------------------------------------------------------------
\* Start-up: the reference baseline and the detector (app.py 123-166)
\* ------------------------------------------------------------------------
FeatureSet == {FEATURE_NAMES[i] : i \in 1..Len(FEATURE_NAMES)}

\* A feature store as start-up finds it: whether Redis answers, and for each
\* entity id either no dictionary (None) or the set of columns its dictionary
\* holds.
FullEntity == Some(FeatureSet)
EntityWithout(c) == Some(FeatureSet \ {c})

GoodStore == [up |-> TRUE, entities |-> [id \in {"1", "2"} |-> FullEntity]]

Stores ==
    {GoodStore,
     [up |-> FALSE, entities |-> [id \in {"1", "2"} |-> FullEntity]],
     [up |-> TRUE, entities |-> [id \in {} |-> FullEntity]],
     [up |-> TRUE, entities |-> [id \in {"1"} |-> FullEntity]],
     [up |-> TRUE, entities |-> [id \in {"1"} |-> None]],
     [up |-> TRUE, entities |-> [id \in {"1", "2"} |->
                                    IF id = "1" THEN FullEntity ELSE None]],
     [up |-> TRUE, entities |-> [id \in {"1", "2"} |-> EntityWithout("Age")]],
     [up |-> TRUE, entities |-> [id \in {"1", "2"} |->
                                    IF id = "1" THEN FullEntity
                                    ELSE EntityWithout("Age")]]}

\* Lines 144-150: get_all_entity_ids, get_batch_features and
\* DataFrame.from_dict(all_features, orient="index")[FEATURE_NAMES].  The
\* store calls raise when Redis does not answer; from_dict raises on an
\* entity without a dictionary; the column selection raises when a feature
\* is a column of no entity (so also when there is no entity).  A feature
\* that only some entities hold is a column with NaN in the other rows.
\* The frame is kept as its number of rows and its columns that hold a NaN.
ReferenceFrame(st) ==
    LET ids == DOMAIN st.entities IN
    IF \/ ~st.up
       \/ ids = {}
       \/ \E id \in ids : st.entities[id] = None
       \/ \E c \in FeatureSet : \A id \in ids : c \notin Get(st.entities[id])
    THEN [ok |-> FALSE, n |-> 0, nan |-> {}]
    ELSE [ok |-> TRUE, n |-> Cardinality(ids),
          nan |-> {c \in FeatureSet : \E id \in ids : c \notin Get(st.entities[id])}]

\* Line 150: the columns of the reference frame are FEATURE_NAMES, in that
\* order, whatever the order of the keys in the store.
ReferenceColumns == FEATURE_NAMES

\* scaler.fit(all_features_df): StandardScaler skips NaN and fits any frame
\* of at least one row; the fitted transform is kept as the frame it was
\* fitted on.
NoScaler == [fitted |-> FALSE, n |-> 0, nan |-> {}]
FitScaler(frame) == [fitted |-> TRUE, n |-> frame.n, nan |-> frame.nan]

\* scaler.transform(all_features_df): the scaled reference sample, kept as the
\* frame and the transform that scaled it
NoReference == [rows |-> 0, nan |-> {}, scaled_by |-> NoScaler]
ScaledReference(sc, frame) == [rows |-> frame.n, nan |-> frame.nan, scaled_by |-> sc]

\* Mutant: the request's row is scaled with fit_transform, which refits
ScalerRefitOnRow(sc) == [fitted |-> TRUE, n |-> 1, nan |-> {}]

\* Line 246: scaler.transform(features) reads the fitted transform and leaves
\* it as it is.
ScalerAfterTransform(sc) == sc

\* Line 166: KSDrift(x_ref=historical_data, p_val=0.05) keeps the reference
\* sample; neither the call nor the constructor looks at its number of rows.
NoDetector == [built |-> FALSE, x_ref |-> NoReference]
BuildKSDrift(x_ref) == [built |-> TRUE, x_ref |-> x_ref]

\* ------------------------------------------------------------------------
\* The Redis feature store (src/feature_store.py)
\* ------------------------------------------------------------------------
\* Python values a feature dictionary can hold: an int, a float (n in
\* halves), the float nan, a tuple or a list of ints.
PyInt(n) == [k |-> "int", n |-> n, items |-> <<>>]
PyFloat(h) == [k |-> "float", n |-> h, items |-> <<>>]
PyNaN == [k |-> "nan", n |-> 0, items |-> <<>>]
PyTuple(xs) == [k |-> "tuple", n |-> 0, items |-> xs]
PyList(xs) == [k |-> "list", n |-> 0, items |-> xs]

\* json.dumps of a value: the JSON text, kept as its token.  A tuple is
\* written as an array, nan as the bare word NaN.
Dumps(v) ==
    CASE v.k = "int" -> [j |-> "integer", n |-> v.n, items |-> <<>>]
      [] v.k = "float" -> [j |-> "real", n |-> v.n, items |-> <<>>]
      [] v.k = "nan" -> [j |-> "NaN", n |-> 0, items |-> <<>>]
      [] v.k \in {"tuple", "list"} -> [j |-> "array", n |-> 0, items |-> v.items]

\* json.loads of a JSON text: an array is read as a list, NaN as a new nan.
Loads(x) ==
    CASE x.j = "integer" -> PyInt(x.n)
      [] x.j = "real" -> PyFloat(x.n)
      [] x.j = "NaN" -> PyNaN
      [] x.j = "array" -> PyList(x.items)

\* A dictionary is its items in insertion order; json keeps that order.
Item(key, val) == [key |-> key, val |-> val]
DumpsDict(f) == [i \in 1..Len(f) |-> Item(f[i].key, Dumps(f[i].val))]
LoadsDict(x) == [i \in 1..Len(x) |-> Item(x[i].key, Loads(x[i].val))]

\* An entity id and a Redis key are strings, kept as the pieces between
\* their ':' characters: the id "a:b" is <<"a", "b">>.
\* Mutant: the key does not carry the id
KeyWithoutId(entity_id) == <<"entity", "features">>

\* Lines 121 and 151: key = f"entity:{entity_id}:features"
Key(entity_id) == <<"entity">> \o entity_id \o <<"features">>

\* Line 245: key.split(":")[1]
SplitSecond(key) == <<key[2]>>

\* Line 244: client.keys("entity:*:features")
MatchesPattern(key) ==
    Len(key) >= 3 /\ key[1] = "entity" /\ key[Len(key)] = "features"

\* Line 122: client.set(key, json.dumps(features))
ClientSet(r, entity_id, f) ==
    [k \in DOMAIN r \cup {Key(entity_id)} |->
        IF k = Key(entity_id) THEN DumpsDict(f) ELSE r[k]]

\* Lines 152-159: client.get(key), then json.loads of a text that is there
ClientGet(r, entity_id) ==
    IF Key(entity_id) \in DOMAIN r THEN Some(LoadsDict(r[Key(entity_id)])) ELSE None

\* The module binds the name _sys (line 44) and no name sys.
SysIsBound == FALSE

Exc(type, cause) == [type |-> type, cause |-> cause]

\* raise CustomException(str(e), sys) of the except branches (lines 128, 165,
\* 191, 224, 251): the arguments are evaluated first, and an unbound name
\* raises NameError in place of the exception being built.
RaiseCustomException(cause) ==
    IF SysIsBound THEN Exc("CustomException", cause)
    ELSE Exc("NameError", "name 'sys' is not defined")

\* raise CustomException(str(e), _sys) of data_processing.py, where _sys is
\* bound (line 43)
RaiseCustomExceptionDP(cause) == Exc("CustomException", cause)

\* The ids and the dictionaries the store is called with
PlainFeatures == <<Item("Age", PyInt(29)), Item("Fare", PyFloat(145))>>
OtherFeatures == <<Item("Age", PyInt(40)), Item("Fare", PyFloat(16)),
                   Item("Sibs", PyList(<<1, 2>>))>>
NaNFeatures == <<Item("Age", PyInt(29)), Item("Sex", PyNaN)>>
TupleFeatures == <<Item("Age", PyInt(29)), Item("Cabins", PyTuple(<<1, 2>>))>>
FeatureDicts == {PlainFeatures, OtherFeatures, NaNFeatures, TupleFeatures}

EntityIds == {<<"1">>, <<"a">>, <<"a", "b">>}
Batches ==
    {<<Item(<<"1">>, PlainFeatures), Item(<<"a", "b">>, OtherFeatures)>>,
     <<Item(<<"a">>, OtherFeatures), Item(<<"1">>, TupleFeatures)>>}
IdLists == {<<<<"1">>, <<"a", "b">>>>, <<<<"a">>>>}

\* The orders in which a set of keys can be listed
Orders(S) ==
    {q \in [1..Cardinality(S) -> S] : \A i, j \in 1..Cardinality(S) : q[i] = q[j] => i = j}

\* What is kept of a call: the method, its argument, what it returned or
\* raised, the client.set calls it made, and for the pipeline the stages it
\* entered and the stage that raised first.
NoCall == [op |-> "", arg |-> <<>>, ret |-> <<>>, exc |-> None, sets |-> 0,
           log |-> <<>>, failed_at |-> ""]
Returns(op, arg, ret, sets) ==
    [op |-> op, arg |-> arg, ret |-> ret, exc |-> None, sets |-> sets,
     log |-> <<>>, failed_at |-> ""]
Raises(op, arg, e, sets) ==
    [op |-> op, arg |-> arg, ret |-> <<>>, exc |-> Some(e), sets |-> sets,
     log |-> <<>>, failed_at |-> ""]

\* ------------------------------------------------------------------------
\* The training-side pipeline (src/data_processing.py, src/model_training.py)
\* ------------------------------------------------------------------------
\* Mutant: the dictionary is written in the column order of feature_cols
\* (data_processing.py 215-227)
StoredFeatureKeysAsFeatureCols ==
    <<"Pclass", "Sex", "Age", "Fare", "Embarked", "Familysize", "Isalone",
      "HasCabin", "Title", "Pclass_Fare", "Age_Fare", "Survived">>

\* data_processing.py 270-283: the keys of an entity's dictionary, in the
\* order they are written
StoredFeatureKeys ==
    <<"Age", "Fare", "Pclass", "Sex", "Embarked", "Familysize", "Isalone",
      "HasCabin", "Title", "Pclass_Fare", "Age_Fare", "Survived">>

\* The passengers of the training frame, by PassengerId
TrainRows == <<"1", "2">>

\* The training frame held in self.data: "none" before load_data, "raw" as
\* read from the CSV, "partial" when preprocess_data failed part-way (it
\* works on self.data in place), "engineered" after preprocess_data,
\* "remapped" after a further preprocess_data (Sex.map of the already mapped
\* 0/1 gives NaN).
\* The dictionary of one row (lines 269-284)
RowFeatures(data, i) ==
    [j \in 1..Len(StoredFeatureKeys) |->
        LET key == StoredFeatureKeys[j] IN
        Item(key,
             IF key = "Sex" /\ data = "remapped" THEN PyNaN
             ELSE IF key \in {"Age", "Fare", "Pclass_Fare", "Age_Fare"}
                  THEN PyFloat(2 * i + 1)
                  ELSE PyInt(i))]

\* Lines 266-284: batch_data, one entry per row, keyed by str(PassengerId)
BatchData(data) ==
    [i \in 1..Len(TrainRows) |-> Item(<<TrainRows[i]>>, RowFeatures(data, i))]

\* model_training.py 168-172: pd.DataFrame(train_data).drop(columns=["Survived"]):
\* the columns are the keys of the dictionaries read back, in their order
TrainingColumns(features) ==
    LET keys == [i \in 1..Len(features) |-> features[i].key]
    IN  SelectSeq(keys, LAMBDA c : c # "Survived")

\* feature_store.py 182-183: store_features for each entry in turn; the
\* entry numbered failing (0: none) finds Redis failing, the entries before
\* it are written.
RECURSIVE StoreEntries(_, _, _)
StoreEntries(r, batch, upto) ==
    IF upto = 0 THEN r
    ELSE ClientSet(StoreEntries(r, batch, upto - 1), batch[upto].key, batch[upto].val)

RECURSIVE NoteEntries(_, _, _)
NoteEntries(w, batch, upto) ==
    IF upto = 0 THEN w
    ELSE LET v == NoteEntries(w, batch, upto - 1) IN
         [id \in DOMAIN v \cup {batch[upto].key} |->
            IF id = batch[upto].key THEN batch[upto].val ELSE v[id]]

Stored(batch, failing) == IF failing = 0 THEN Len(batch) ELSE failing - 1

\* The DataProcessing object (lines 97-113) and one step of it: the object,
\* the store, the stages entered, the client.set calls made, the exception.
NewDataProcessing == [data |-> "none", test_data |-> FALSE, resampled |-> FALSE]

World(d, r, w) == [dp |-> d, redis |-> r, written |-> w, log |-> <<>>, sets |-> 0,
                   exc |-> None, failed_at |-> ""]
Enter(x, stage) == [x EXCEPT !.log = Append(@, stage)]
Fail(x, cause) ==
    [x EXCEPT !.exc = Some(RaiseCustomExceptionDP(cause)),
              !.failed_at = IF @ = "" THEN x.log[Len(x.log)] ELSE @]
DPCall(op, before, x) ==
    [op |-> op, arg |-> <<before.data>>, ret |-> <<>>, exc |-> x.exc,
     sets |-> x.sets, log |-> x.log, failed_at |-> x.failed_at]

\* load_data (lines 118-136); o: "ok", "train" (the first read_csv raises)
\* or "test" (the second one does, after self.data is set)
load_data(x0, o) ==
    LET x == Enter(x0, "load_data") IN
    CASE o = "train" -> Fail(x, "read_csv")
      [] o = "test" -> Fail([x EXCEPT !.dp.data = "raw"], "read_csv")
      [] OTHER -> [x EXCEPT !.dp.data = "raw", !.dp.test_data = TRUE]

\* preprocess_data (lines 141-193); o: "ok" or "raise" (a column is missing)
preprocess_data(x0, o) ==
    LET x == Enter(x0, "preprocess_data") IN
    IF x.dp.data = "none" THEN Fail(x, "Training data not loaded")
    ELSE IF o = "raise" \/ x.dp.data = "partial"
    THEN Fail([x EXCEPT !.dp.data = "partial"], "KeyError")
    ELSE [x EXCEPT !.dp.data = IF @ = "raw" THEN "engineered" ELSE "remapped"]

\* handle_imbalance_data (lines 198-245); o: "ok" or "raise" (SMOTE raises)
handle_imbalance_data(x0, o) ==
    LET x == Enter(x0, "handle_imbalance_data") IN
    IF x.dp.data = "none" THEN Fail(x, "Training data not loaded/preprocessed")
    ELSE IF x.dp.data \in {"raw", "partial"} THEN Fail(x, "KeyError")
    ELSE IF x.dp.data = "remapped" \/ o = "raise" THEN Fail(x, "SMOTE")
    ELSE [x EXCEPT !.dp.resampled = TRUE]

\* store_feature_in_redis (lines 250-291); failing: the entry of the batch
\* at which Redis fails (0: none)
store_feature_in_redis(x0, failing) ==
    LET x == Enter(x0, "store_feature_in_redis") IN
    IF x.dp.data = "none" THEN Fail(x, "Training data not loaded/preprocessed")
    ELSE IF x.dp.data \in {"raw", "partial"} THEN Fail(x, "KeyError")
    ELSE LET batch == BatchData(x.dp.data)
             n == Stored(batch, failing)
             y == [x EXCEPT !.redis = StoreEntries(@, batch, n),
                            !.written = NoteEntries(@, batch, n),
                            !.sets = @ + n]
         IN  IF failing = 0 THEN y ELSE Fail(y, RaiseCustomException("redis").type)

\* Mutant: run goes on to the next stage after a stage has failed
run_regardless(x0, o) ==
    LET a == load_data(x0, o.load)
        b == preprocess_data([a EXCEPT !.exc = None], o.preprocess)
        c == handle_imbalance_data([b EXCEPT !.exc = None], o.imbalance)
        d == store_feature_in_redis([c EXCEPT !.exc = None], o.failing)
    IN  d

\* run (lines 343-368): the four stages in turn; the first exception leaves
\* the try block and is raised again as CustomException
run(x0, o) ==
    LET a == load_data(x0, o.load) IN
    IF a.exc # None THEN Fail(a, Get(a.exc).type)
    ELSE LET b == preprocess_data(a, o.preprocess) IN
    IF b.exc # None THEN Fail(b, Get(b.exc).type)
    ELSE LET c == handle_imbalance_data(b, o.imbalance) IN
    IF c.exc # None THEN Fail(c, Get(c.exc).type)
    ELSE LET d == store_feature_in_redis(c, o.failing) IN
    IF d.exc # None THEN Fail(d, Get(d.exc).type)
    ELSE d

RunOutcomes ==
    [load : {"ok", "train", "test"}, preprocess : {"ok", "raise"},
     imbalance : {"ok", "raise"}, failing : 0..Len(TrainRows)]

\* ------------------------------------------------------------------------
\* State
\* ------------------------------------------------------------------------
VARIABLES
    redis,             \* the Redis database: key -> JSON text
    written,           \* entity id -> the dictionary last stored for it
    last_call,         \* the last call of a feature store or pipeline method
    dp,                \* the DataProcessing object
    phase,             \* where the process is: "import", "fitted", "loaded",
                       \* "serving" (app.run accepts requests) or "failed"
    store,             \* the feature store read at start-up
    scaler,            \* the module's StandardScaler
    historical_data,   \* the scaled reference sample
    ksd,               \* the KSDrift detector
    fits,              \* how many times the baseline has been built
    builds,            \* how many times the detector has been built
    get_view,          \* per thread: what its GET / or GET /metrics returned
    classified,        \* finished requests whose model.predict returned
    drifted,           \* finished requests whose is_drift was 1
    model_has_proba,   \* hasattr(model, "predict_proba") of the loaded model
    prediction_count,  \* Prometheus counter prediction_count
    drift_count,       \* Prometheus counter drift_count
    pc,                \* per thread: where its request is in predict()
    form,              \* per thread: request.form
    fields,            \* per thread: the nine coerced integers
    features,          \* per thread: the feature row
    drift_data,        \* per thread: is_drift and p_vals read from the detector
    drift_payload,     \* per thread: the payload for the template, once built
    yhat,              \* per thread: the predicted class, once classified
    response,          \* per thread: the response returned
    calls,             \* per thread: the collaborators called, in order
    incP,              \* per thread: growth of prediction_count in its steps
    incD               \* per thread: growth of drift_count in its steps

vars == <<model_has_proba, prediction_count, drift_count, pc, form, fields,
          features, drift_data, drift_payload, yhat, response, calls, incP, incD,
          phase, store, scaler, historical_data, ksd, fits, builds, get_view,
          classified, drifted, redis, written, last_call, dp>>

\* What start-up sets and requests only read
boot == <<phase, store, scaler, historical_data, ksd, fits, builds>>
\* The tallies of finished requests
tallies == <<classified, drifted>>
\* The feature store and the training-side pipeline
pipeline == <<redis, written, last_call, dp>>
\* The inference service
service == <<model_has_proba, prediction_count, drift_count, pc, form, fields,
             features, drift_data, drift_payload, yhat, response, calls, incP,
             incD, phase, store, scaler, historical_data, ksd, fits, builds,
             get_view, classified, drifted>>

NoForm == [f \in FormKeys |-> Missing]
NoFields == [f \in FieldSet |-> 0]
NoDrift == [raised |-> FALSE, is_drift |-> None, p_val |-> None]

\* What a GET route returned: nothing yet, the page of GET / (line 182:
\* render_template("index.html", prediction_label=None, drift=None)), or the
\* exposition of GET /metrics (line 388: generate_latest() of the registry,
\* kept as the two counters it reports).
NoView == [route |-> "", status |-> 0, prediction_label |-> None,
           drift |-> None, metrics |-> None]
\* Mutant: the page of GET / carries a drift report
HomeViewWithDrift ==
    [route |-> "/", status |-> 200, prediction_label |-> None,
     drift |-> Some(DriftPayload(None, <<>>)), metrics |-> None]
HomeView ==
    [route |-> "/", status |-> 200, prediction_label |-> None,
     drift |-> None, metrics |-> None]
MetricsView(p, d) ==
    [route |-> "/metrics", status |-> 200, prediction_label |-> None,
     drift |-> None, metrics |-> Some([prediction_count |-> p, drift_count |-> d])]

\* The module body has not run yet: the store is as the process finds it,
\* the model is loaded, nothing is fitted.
InitOn(stores) ==
    /\ phase = "import"
    /\ store \in stores
    /\ scaler = NoScaler
    /\ historical_data = NoReference
    /\ ksd = NoDetector
    /\ fits = 0
    /\ builds = 0
    /\ get_view = [t \in AllThreads |-> NoView]
    /\ redis = [k \in {} |-> <<>>]
    /\ written = [id \in {} |-> <<>>]
    /\ last_call = NoCall
    /\ dp = NewDataProcessing
    /\ classified = 0
    /\ drifted = 0
    /\ model_has_proba \in BOOLEAN
    /\ prediction_count = 0
    /\ drift_count = 0
    /\ pc = [t \in AllThreads |-> "idle"]
    /\ form = [t \in AllThreads |-> NoForm]
    /\ fields = [t \in AllThreads |-> NoFields]
    /\ features = [t \in AllThreads |-> <<>>]
    /\ drift_data = [t \in AllThreads |-> NoDrift]
    /\ drift_payload = [t \in AllThreads |-> None]
    /\ yhat = [t \in AllThreads |-> None]
    /\ response = [t \in AllThreads |-> NoResponse]
    /\ calls = [t \in AllThreads |-> <<>>]
    /\ incP = [t \in AllThreads |-> 0]
    /\ incD = [t \in AllThreads |-> 0]

Init == InitOn({GoodStore})
\* The same start, whatever the feature store holds
InitBoot == InitOn(Stores)

\* The growth of the two counters in a step is booked to the thread that took it.
Book(t) ==
    /\ incP' = [incP EXCEPT ![t] = @ + (prediction_count' - prediction_count)]
    /\ incD' = [incD EXCEPT ![t] = @ + (drift_count' - drift_count)]

\* Lines 129-163: historical_data = fit_scaler_on_ref_data().  Any exception
\* leaves the module body and the process ends without serving.
FitScalerOnRefData ==
    /\ phase = "import"
    /\ LET frame == ReferenceFrame(store) IN
       IF frame.ok
       THEN /\ scaler' = FitScaler(frame)
            /\ historical_data' = ScaledReference(FitScaler(frame), frame)
            /\ fits' = fits + 1
            /\ phase' = "fitted"
       ELSE /\ phase' = "failed"
            /\ UNCHANGED <<scaler, historical_data, fits>>
    /\ UNCHANGED pipeline
    /\ UNCHANGED <<store, ksd, builds, get_view, tallies, model_has_proba,
                   prediction_count, drift_count, pc, form, fields, features,
                   drift_data, drift_payload, yhat, response, calls, incP, incD>>

\* Line 166: ksd = KSDrift(x_ref=historical_data, p_val=0.05); the rest of the
\* module body only defines the routes.
BuildDetector ==
    /\ phase = "fitted"
    /\ LET d == BuildKSDrift(historical_data) IN
       IF d.built
       THEN /\ ksd' = d
            /\ builds' = builds + 1
            /\ phase' = "loaded"
       ELSE /\ phase' = "failed"
            /\ UNCHANGED <<ksd, builds>>
    /\ UNCHANGED pipeline
    /\ UNCHANGED <<store, scaler, historical_data, fits, get_view, tallies,
                   model_has_proba, prediction_count, drift_count, pc, form,
                   fields, features, drift_data, drift_payload, yhat, response,
                   calls, incP, incD>>

\* Lines 394-399: the module body is done; app.run starts to accept requests.
Run ==
    /\ phase = "loaded"
    /\ phase' = "serving"
    /\ UNCHANGED pipeline
    /\ UNCHANGED <<store, scaler, historical_data, ksd, fits, builds, get_view,
                   tallies, model_has_proba, prediction_count, drift_count, pc,
                   form, fields, features, drift_data, drift_payload, yhat,
                   response, calls, incP, incD>>

\* Mutant: requests are accepted while the module body still runs
CanServeEarly == phase # "failed"
\* A route is called only by the server that app.run starts (line 399), the
\* last statement of the program.
CanServe == phase = "serving"

\* GET / (lines 171-182)
Home(t) ==
    /\ pc[t] = "idle"
    /\ CanServe
    /\ get_view' = [get_view EXCEPT ![t] = HomeView]
    /\ pc' = [pc EXCEPT ![t] = "sent"]
    /\ UNCHANGED <<boot, tallies, model_has_proba, prediction_count, drift_count,
                   form, fields, features, drift_data, drift_payload, yhat,
                   response, calls>>
    /\ Book(t)
    /\ UNCHANGED pipeline

\* Mutant: a scrape that resets the counters it reports
MetricsResets(t) ==
    /\ pc[t] = "idle"
    /\ CanServe
    /\ get_view' = [get_view EXCEPT ![t] = MetricsView(prediction_count, drift_count)]
    /\ pc' = [pc EXCEPT ![t] = "sent"]
    /\ prediction_count' = 0
    /\ drift_count' = 0
    /\ UNCHANGED <<boot, tallies, model_has_proba, form, fields, features,
                   drift_data, drift_payload, yhat, response, calls>>
    /\ Book(t)
    /\ UNCHANGED pipeline

\* GET /metrics (lines 374-388)
Metrics(t) ==
    /\ pc[t] = "idle"
    /\ CanServe
    /\ get_view' = [get_view EXCEPT ![t] = MetricsView(prediction_count, drift_count)]
    /\ pc' = [pc EXCEPT ![t] = "sent"]
    /\ UNCHANGED <<boot, tallies, model_has_proba, prediction_count, drift_count,
                   form, fields, features, drift_data, drift_payload, yhat,
                   response, calls>>
    /\ Book(t)
    /\ UNCHANGED pipeline

\* POST /predict arrives at an idle thread; lines 204-240: read and validate the
\* form, compute the interaction features, assemble the feature row.
Validate(t, data) ==
    /\ pc[t] = "idle"
    /\ CanServe
    /\ prediction_count < MaxCount
    /\ drift_count < MaxCount
    /\ form' = [form EXCEPT ![t] = data]
    /\ LET r == ValidateForm(data) IN
       IF r.ok
       THEN /\ fields' = [fields EXCEPT ![t] = r.fields]
            /\ features' = [features EXCEPT ![t] = BuildFeatures(r.fields)]
            /\ response' = [response EXCEPT ![t] = NoResponse]
            /\ calls' = [calls EXCEPT ![t] = <<>>]
            /\ pc' = [pc EXCEPT ![t] = "drift"]
       ELSE /\ fields' = [fields EXCEPT ![t] = NoFields]
            /\ features' = [features EXCEPT ![t] = <<>>]
            /\ response' = [response EXCEPT ![t] = ErrorResponse(r.error.err, r.error.field)]
            /\ calls' = [calls EXCEPT ![t] = <<Call("render_template", <<>>, "returned")>>]
            /\ pc' = [pc EXCEPT ![t] = "done"]
    /\ UNCHANGED <<model_has_proba, prediction_count, drift_count,
                   drift_data, drift_payload, yhat, boot, get_view, tallies>>
    /\ Book(t)
    /\ UNCHANGED pipeline

\* Lines 245-307: scale the row, run the detector, build the drift table,
\* count the drift, build the payload.
DriftCheck(t, scaled, d) ==
    /\ pc[t] = "drift"
    /\ IF ~scaled
       THEN /\ calls' = [calls EXCEPT ![t] =
                    <<Call("scaler.transform", features[t], "raised"),
                      Call("render_template", <<>>, "returned")>>]
            /\ response' = [response EXCEPT ![t] =
                    ErrorResponse("scaler.transform raised", "")]
            /\ pc' = [pc EXCEPT ![t] = "done"]
            /\ UNCHANGED <<drift_data, drift_payload, drift_count>>
       ELSE IF d.raised
       THEN /\ calls' = [calls EXCEPT ![t] =
                    <<Call("scaler.transform", features[t], "returned"),
                      Call("ksd.predict", <<>>, "raised"),
                      Call("render_template", <<>>, "returned")>>]
            /\ response' = [response EXCEPT ![t] =
                    ErrorResponse("ksd.predict raised", "")]
            /\ pc' = [pc EXCEPT ![t] = "done"]
            /\ UNCHANGED <<drift_data, drift_payload, drift_count>>
       ELSE /\ drift_data' = [drift_data EXCEPT ![t] = d]
            /\ drift_count' =
                    IF DriftDetected(d.is_drift) THEN Inc(drift_count) ELSE drift_count
            /\ drift_payload' = [drift_payload EXCEPT ![t] =
                    Some(DriftPayload(d.is_drift, DriftRows(d.p_val)))]
            /\ calls' = [calls EXCEPT ![t] =
                    <<Call("scaler.transform", features[t], "returned"),
                      Call("ksd.predict", <<>>, "returned")>>
                    \o (IF DriftDetected(d.is_drift)
                        THEN <<Call("drift_count.inc", <<>>, "returned")>> ELSE <<>>)]
            /\ pc' = [pc EXCEPT ![t] = "infer"]
            /\ UNCHANGED response
    /\ scaler' = ScalerAfterTransform(scaler)
    /\ UNCHANGED <<model_has_proba, prediction_count, form, fields, features, yhat,
                   phase, store, historical_data, ksd, fits, builds, get_view,
                   tallies>>
    /\ Book(t)
    /\ UNCHANGED pipeline

\* Mutant: a classifier that raised is called a second time
InferenceRetries(t, o) ==
    /\ pc[t] = "infer"
    /\ IF o = "raise"
       THEN /\ calls' = [calls EXCEPT ![t] =
                    @ \o <<Call("model.predict", features[t], "raised"),
                           Call("model.predict", features[t], "raised"),
                           Call("render_template", <<>>, "returned")>>]
            /\ response' = [response EXCEPT ![t] =
                    ErrorResponse("model.predict raised", "")]
            /\ pc' = [pc EXCEPT ![t] = "done"]
            /\ UNCHANGED <<yhat, prediction_count>>
       ELSE /\ yhat' = [yhat EXCEPT ![t] = Some(ClassOf(o))]
            /\ prediction_count' = CountPrediction(prediction_count)
            /\ calls' = [calls EXCEPT ![t] =
                    @ \o <<Call("model.predict", features[t], "returned"),
                           Call("prediction_count.inc", <<>>, "returned")>>]
            /\ pc' = [pc EXCEPT ![t] = "present"]
            /\ UNCHANGED response
    /\ UNCHANGED <<model_has_proba, drift_count, form, fields, features,
                   drift_data, drift_payload, boot, get_view, tallies>>
    /\ Book(t)
    /\ UNCHANGED pipeline

\* Mutant: the prediction is counted before the classifier is called
InferenceCountsFirst(t, o) ==
    /\ pc[t] = "infer"
    /\ prediction_count' = CountPrediction(prediction_count)
    /\ IF o = "raise"
       THEN /\ calls' = [calls EXCEPT ![t] =
                    @ \o <<Call("prediction_count.inc", <<>>, "returned"),
                           Call("model.predict", features[t], "raised"),
                           Call("render_template", <<>>, "returned")>>]
            /\ response' = [response EXCEPT ![t] =
                    ErrorResponse("model.predict raised", "")]
            /\ pc' = [pc EXCEPT ![t] = "done"]
            /\ UNCHANGED yhat
       ELSE /\ yhat' = [yhat EXCEPT ![t] = Some(ClassOf(o))]
            /\ calls' = [calls EXCEPT ![t] =
                    @ \o <<Call("prediction_count.inc", <<>>, "returned"),
                           Call("model.predict", features[t], "returned")>>]
            /\ pc' = [pc EXCEPT ![t] = "present"]
            /\ UNCHANGED response
    /\ UNCHANGED <<model_has_proba, drift_count, form, fields, features,
                   drift_data, drift_payload, boot, get_view, tallies>>
    /\ Book(t)
    /\ UNCHANGED pipeline

\* Mutant: a classifier failure takes back the request's drift count
InferenceRollsBack(t, o) ==
    /\ pc[t] = "infer"
    /\ IF o = "raise"
       THEN /\ calls' = [calls EXCEPT ![t] =
                    @ \o <<Call("model.predict", features[t], "raised"),
                           Call("render_template", <<>>, "returned")>>]
            /\ response' = [response EXCEPT ![t] =
                    ErrorResponse("model.predict raised", "")]
            /\ pc' = [pc EXCEPT ![t] = "done"]
            /\ drift_count' = drift_count - incD[t]
            /\ UNCHANGED <<yhat, prediction_count>>
       ELSE /\ yhat' = [yhat EXCEPT ![t] = Some(ClassOf(o))]
            /\ prediction_count' = CountPrediction(prediction_count)
            /\ calls' = [calls EXCEPT ![t] =
                    @ \o <<Call("model.predict", features[t], "returned"),
                           Call("prediction_count.inc", <<>>, "returned")>>]
            /\ pc' = [pc EXCEPT ![t] = "present"]
            /\ UNCHANGED <<response, drift_count>>
    /\ UNCHANGED <<model_has_proba, form, fields, features,
                   drift_data, drift_payload, boot, get_view, tallies>>
    /\ Book(t)
    /\ UNCHANGED pipeline

\* Lines 313-316: classify the row and count the prediction.
Inference(t, o) ==
    /\ pc[t] = "infer"
    /\ IF o = "raise"
       THEN /\ calls' = [calls EXCEPT ![t] =
                    @ \o <<Call("model.predict", features[t], "raised"),
                           Call("render_template", <<>>, "returned")>>]
            /\ response' = [response EXCEPT ![t] =
                    ErrorResponse("model.predict raised", "")]
            /\ pc' = [pc EXCEPT ![t] = "done"]
            /\ UNCHANGED <<yhat, prediction_count>>
       ELSE /\ yhat' = [yhat EXCEPT ![t] = Some(ClassOf(o))]
            /\ prediction_count' = CountPrediction(prediction_count)
            /\ calls' = [calls EXCEPT ![t] =
                    @ \o <<Call("model.predict", features[t], "returned"),
                           Call("prediction_count.inc", <<>>, "returned")>>]
            /\ pc' = [pc EXCEPT ![t] = "present"]
            /\ UNCHANGED response
    /\ UNCHANGED <<model_has_proba, drift_count, form, fields, features,
                   drift_data, drift_payload, boot, get_view, tallies>>
    /\ Book(t)
    /\ UNCHANGED pipeline

\* Lines 318-356: label, probability if the model gives one, render with 200.
Respond(t, o) ==
    /\ pc[t] = "present"
    /\ response' = [response EXCEPT ![t] =
            SuccessResponse(PredictionLabel(Get(yhat[t])),
                            PredictionProbPct(model_has_proba, o),
                            Get(drift_payload[t]))]
    /\ calls' = [calls EXCEPT ![t] =
            @ \o (IF model_has_proba
                  THEN <<Call("model.predict_proba", features[t],
                               IF o.raised THEN "raised" ELSE "returned")>>
                  ELSE <<>>)
              \o <<Call("render_template", <<>>, "returned")>>]
    /\ pc' = [pc EXCEPT ![t] = "done"]
    /\ UNCHANGED <<model_has_proba, prediction_count, drift_count, form, fields,
                   features, drift_data, drift_payload, yhat, boot, get_view, tallies>>
    /\ Book(t)
    /\ UNCHANGED pipeline

\* The response has been sent: the request's locals are dropped and the
\* thread is free for the next request.  The request is tallied by what it
\* saw: a class from model.predict, an is_drift of 1 from the detector.
Return(t) ==
    /\ pc[t] \in {"done", "sent"}
    /\ get_view' = [get_view EXCEPT ![t] = NoView]
    /\ classified' = classified + (IF yhat[t] # None THEN 1 ELSE 0)
    /\ drifted' = drifted + (IF drift_data[t].is_drift = Some(1) THEN 1 ELSE 0)
    /\ pc' = [pc EXCEPT ![t] = "idle"]
    /\ form' = [form EXCEPT ![t] = NoForm]
    /\ fields' = [fields EXCEPT ![t] = NoFields]
    /\ features' = [features EXCEPT ![t] = <<>>]
    /\ drift_data' = [drift_data EXCEPT ![t] = NoDrift]
    /\ drift_payload' = [drift_payload EXCEPT ![t] = None]
    /\ yhat' = [yhat EXCEPT ![t] = None]
    /\ response' = [response EXCEPT ![t] = NoResponse]
    /\ calls' = [calls EXCEPT ![t] = <<>>]
    /\ incP' = [incP EXCEPT ![t] = 0]
    /\ incD' = [incD EXCEPT ![t] = 0]
    /\ UNCHANGED <<model_has_proba, prediction_count, drift_count, boot>>
    /\ UNCHANGED pipeline

Next ==
    \/ FitScalerOnRefData
    \/ BuildDetector
    \/ Run
    \/ \E t \in Threads :
        \/ Home(t)
        \/ Metrics(t)
        \/ \E data \in Forms : Validate(t, data)
        \/ \E scaled \in BOOLEAN, d \in DetectorOutcomes : DriftCheck(t, scaled, d)
        \/ \E o \in ClassifierOutcomes : Inference(t, o)
        \/ \E o \in ProbaOutcomes : Respond(t, o)
        \/ Return(t)

Spec == Init /\ [][Next]_vars

\* Start-up on every feature store, then a few requests
BootForms == {BaseForm, [BaseForm EXCEPT !["Age"] = Missing]}
BootDetectorOutcomes ==
    {[raised |-> TRUE, is_drift |-> None, p_val |-> None]}
    \cup {KSDriftPredict(PVector(Len(FEATURE_NAMES), 1, p)) : p \in {44, 10000}}

NextBoot ==
    \/ FitScalerOnRefData
    \/ BuildDetector
    \/ Run
    \/ \E t \in Threads :
        \/ Home(t)
        \/ Metrics(t)
        \/ \E data \in BootForms : Validate(t, data)
        \/ \E d \in BootDetectorOutcomes : DriftCheck(t, TRUE, d)
        \/ \E o \in ClassifierOutcomes : Inference(t, o)
        \/ \E o \in ProbaOutcomes : Respond(t, o)
        \/ Return(t)

SpecBoot == InitBoot /\ [][NextBoot]_vars

\* Every worker thread at once
NextConc ==
    \/ FitScalerOnRefData
    \/ BuildDetector
    \/ Run
    \/ \E t \in AllThreads :
        \/ Home(t)
        \/ Metrics(t)
        \/ \E data \in BootForms : Validate(t, data)
        \/ \E d \in BootDetectorOutcomes : DriftCheck(t, TRUE, d)
        \/ \E o \in ClassifierOutcomes : Inference(t, o)
        \/ \E o \in ProbaOutcomes : Respond(t, o)
        \/ Return(t)

SpecConc == Init /\ [][NextConc]_vars

\* ------------------------------------------------------------------------
\* The feature store and the data pipeline as programs of their own
\* ------------------------------------------------------------------------
\* store_features (feature_store.py 105-128); up: Redis answers
StoreFeatures(entity_id, f, up) ==
    /\ IF up
       THEN /\ redis' = ClientSet(redis, entity_id, f)
            /\ written' = [id \in DOMAIN written \cup {entity_id} |->
                              IF id = entity_id THEN f ELSE written[id]]
            /\ last_call' = Returns("store_features", entity_id, None, 1)
       ELSE /\ last_call' = Raises("store_features", entity_id,
                                   RaiseCustomException("redis"), 0)
            /\ UNCHANGED <<redis, written>>
    /\ UNCHANGED <<service, dp>>

\* get_features (133-165)
GetFeatures(entity_id, up) ==
    /\ last_call' =
          IF up THEN Returns("get_features", entity_id, ClientGet(redis, entity_id), 0)
          ELSE Raises("get_features", entity_id, RaiseCustomException("redis"), 0)
    /\ UNCHANGED <<service, dp, redis, written>>

\* store_batch_features (170-191): the exception of the failing
\* store_features is caught and raised again the same way
StoreBatchFeatures(batch, failing) ==
    /\ redis' = StoreEntries(redis, batch, Stored(batch, failing))
    /\ written' = NoteEntries(written, batch, Stored(batch, failing))
    /\ last_call' =
          IF failing = 0
          THEN Returns("store_batch_features", batch, None, Len(batch))
          ELSE Raises("store_batch_features", batch,
                      RaiseCustomException(RaiseCustomException("redis").type),
                      Stored(batch, failing))
    /\ UNCHANGED <<service, dp>>

\* get_batch_features (196-224)
GetBatchFeatures(entity_ids, up) ==
    /\ last_call' =
          IF up
          THEN Returns("get_batch_features", entity_ids,
                       [i \in 1..Len(entity_ids) |->
                           Item(entity_ids[i], ClientGet(redis, entity_ids[i]))], 0)
          ELSE Raises("get_batch_features", entity_ids,
                      RaiseCustomException(RaiseCustomException("redis").type), 0)
    /\ UNCHANGED <<service, dp, redis, written>>

\* get_all_entity_ids (229-251); keys: the matching keys in the order Redis
\* lists them
GetAllEntityIds(keys, up) ==
    /\ keys \in Orders({k \in DOMAIN redis : MatchesPattern(k)})
    /\ last_call' =
          IF up
          THEN Returns("get_all_entity_ids", <<>>,
                       [i \in 1..Len(keys) |-> SplitSecond(keys[i])], 0)
          ELSE Raises("get_all_entity_ids", <<>>, RaiseCustomException("redis"), 0)
    /\ UNCHANGED <<service, dp, redis, written>>

NextStore ==
    \/ \E id \in EntityIds, f \in FeatureDicts, up \in BOOLEAN : StoreFeatures(id, f, up)
    \/ \E id \in EntityIds, up \in BOOLEAN : GetFeatures(id, up)
    \/ \E batch \in Batches, failing \in 0..2 : StoreBatchFeatures(batch, failing)
    \/ \E ids \in IdLists, up \in BOOLEAN : GetBatchFeatures(ids, up)
    \/ \E keys \in Orders(DOMAIN redis), up \in BOOLEAN : GetAllEntityIds(keys, up)

SpecStore == Init /\ [][NextStore]_vars

\* One call of a DataProcessing method
Step(op, x) ==
    /\ dp' = x.dp
    /\ redis' = x.redis
    /\ written' = x.written
    /\ last_call' = DPCall(op, dp, x)
    /\ UNCHANGED service

LoadData(o) == Step("load_data", load_data(World(dp, redis, written), o))
PreprocessData(o) ==
    Step("preprocess_data", preprocess_data(World(dp, redis, written), o))
HandleImbalanceData(o) ==
    Step("handle_imbalance_data", handle_imbalance_data(World(dp, redis, written), o))
StoreFeatureInRedis(failing) ==
    Step("store_feature_in_redis",
         store_feature_in_redis(World(dp, redis, written), failing))
RunDataProcessing(o) == Step("run", run(World(dp, redis, written), o))

NextData ==
    \/ \E o \in {"ok", "train", "test"} : LoadData(o)
    \/ \E o \in {"ok", "raise"} : PreprocessData(o)
    \/ \E o \in {"ok", "raise"} : HandleImbalanceData(o)
    \/ \E failing \in 0..Len(TrainRows) : StoreFeatureInRedis(failing)
    \/ \E o \in RunOutcomes : RunDataProcessing(o)

SpecData == Init /\ [][NextData]_vars

\* ------------------------------------------------------------------------
\* Properties
\* ------------------------------------------------------------------------
\* The functions a request called, and how often it called one
Called(t, fn) == \E i \in 1..Len(calls[t]) : calls[t][i].fn = fn
TimesCalled(t, fn) == Cardinality({i \in 1..Len(calls[t]) : calls[t][i].fn = fn})
Raised(t, fn) ==
    \E i \in 1..Len(calls[t]) : calls[t][i].fn = fn /\ calls[t][i].res = "raised"
Returned(t, fn) ==
    \E i \in 1..Len(calls[t]) : calls[t][i].fn = fn /\ calls[t][i].res = "returned"

\* The number a submitted value stands for once truncated toward zero
Number(raw) == IF raw.h >= 0 THEN raw.h \div 2 ELSE -((-raw.h) \div 2)
IsNumber(raw) == raw.kind \in {"int", "dec"}

\* C1: a request grows the prediction counter by 1 if model.predict returned
\* and the request answered 200, and by 0 otherwise, whatever the drift
\* outcome and whether or not a probability is available.
C1_PredictionCountedOnce ==
    \A t \in Threads :
        /\ incP[t] \in {0, 1}
        /\ incP[t] = 1 <=> Returned(t, "model.predict")
        /\ pc[t] = "done" =>
              (incP[t] = 1 <=>
                  (Returned(t, "model.predict") /\ response[t].status = 200))

C1_Witness ==
    \E t \in Threads :
        /\ pc[t] = "done"
        /\ response[t].status = 200
        /\ response[t].prediction_prob = None
        /\ Get(response[t].drift).is_drift
        /\ incP[t] = 1
        /\ prediction_count = 2

\* C2: a request grows the drift counter by 1 if the aggregate is_drift of
\* its drift report is true and by 0 otherwise, never by more.
C2_DriftCountedOnce ==
    \A t \in Threads :
        /\ incD[t] \in {0, 1}
        /\ incD[t] = 1 <=> (drift_payload[t] # None /\ Get(drift_payload[t]).is_drift)
        /\ incD[t] = 1 <=> drift_data[t].is_drift = Some(1)

C2_Witness ==
    \E t \in Threads :
        /\ pc[t] = "done"
        /\ response[t].status = 200
        /\ Get(response[t].drift).is_drift
        /\ incD[t] = 1
        /\ drift_count = 2

\* What the validator's field rules reject: a missing key, a string that the
\* field's coercion does not parse, or a number outside the field's bounds.
Rejected(raw, f) ==
    \/ raw.kind = "missing"
    \/ raw.kind = "text"
    \/ f \notin {"Age", "Fare", "Familysize"} /\ raw.kind # "int"
    \/ f = "Age" /\ IsNumber(raw) /\ (Number(raw) < 0 \/ Number(raw) > 120)
    \/ f = "Fare" /\ IsNumber(raw) /\ (Number(raw) < 0 \/ Number(raw) > 10000)
    \/ f = "Pclass" /\ raw.kind = "int" /\ Number(raw) \notin {1, 2, 3}
    \/ f = "Familysize" /\ IsNumber(raw) /\ Number(raw) < 0

FailsValidation(data) == \E f \in FieldSet : Rejected(data[f], f)

\* A thread that is handling a POST /predict
InPredict(t) == pc[t] \notin {"idle", "sent"}

\* C3: a request whose form fails validation never calls the scaler, the
\* detector or the classifier and leaves both counters as they were.
C3_InvalidInputStopsEarly ==
    \A t \in Threads :
        (InPredict(t) /\ FailsValidation(form[t])) =>
            /\ pc[t] = "done"
            /\ response[t].status = 400
            /\ ~Called(t, "scaler.transform")
            /\ ~Called(t, "ksd.predict")
            /\ ~Called(t, "model.predict")
            /\ ~Called(t, "model.predict_proba")
            /\ incP[t] = 0
            /\ incD[t] = 0

C3_Witness ==
    \E t \in Threads :
        /\ pc[t] = "done"
        /\ form[t]["Fare"] = IntLit(10001)
        /\ response[t].status = 400
        /\ prediction_count = 1
        /\ drift_count = 1
        /\ incP[t] = 0

\* C4: in every drift report (the detector returned its aggregate and one
\* p-value per feature) the aggregate is_drift shown is true iff at least one
\* row of the table is flagged, that is, has a p-value below 0.05.
FullReport(t) ==
    /\ drift_payload[t] # None
    /\ drift_data[t].is_drift # None
    /\ drift_data[t].p_val # None
    /\ Len(Get(drift_data[t].p_val)) = Len(FEATURE_NAMES)

C4_IsDriftIffRowFlagged ==
    \A t \in Threads :
        FullReport(t) =>
            LET d == Get(drift_payload[t]) IN
            d.is_drift <=> \E i \in 1..Len(d.rows) : d.rows[i].flagged

\* C5 as stated: every 200 response has a drift table of exactly 11 rows, one
\* per feature in schema order, each with a p-value in [0,1].
C5_AlwaysElevenRows ==
    \A t \in Threads :
        (pc[t] = "done" /\ response[t].status = 200) =>
            LET rows == Get(response[t].drift).rows IN
            /\ Len(rows) = Len(FEATURE_NAMES)
            /\ \A i \in 1..Len(rows) :
                  /\ rows[i].feature = FEATURE_NAMES[i]
                  /\ 0 <= rows[i].pval /\ rows[i].pval <= 1000

\* C5 as amended: a 200 response has one row per p-value the detector
\* returned, up to the 11 features, in schema order, row i carrying p-value i
\* rounded to three decimals and within [0,1]; so 11 rows when the detector
\* returned one p-value per feature and none when it returned no p-values.
C5_OneRowPerPValue ==
    \A t \in Threads :
        (pc[t] = "done" /\ response[t].status = 200) =>
            LET rows == Get(response[t].drift).rows
                pv == drift_data[t].p_val
            IN  /\ pv = None => rows = <<>>
                /\ pv # None =>
                      /\ Len(Get(pv)) >= Len(FEATURE_NAMES) => Len(rows) = Len(FEATURE_NAMES)
                      /\ Len(Get(pv)) < Len(FEATURE_NAMES) => Len(rows) = Len(Get(pv))
                      /\ \A i \in 1..Len(rows) :
                            /\ rows[i].feature = FEATURE_NAMES[i]
                            /\ 10 * rows[i].pval - Get(pv)[i] \in -5..5
                            /\ 0 <= rows[i].pval /\ rows[i].pval <= 1000

C5_Witness ==
    \E t \in Threads :
        /\ pc[t] = "done"
        /\ response[t].status = 200
        /\ Len(Get(response[t].drift).rows) = 11
        /\ Get(response[t].drift).rows[11].feature = "Age_Fare"
        /\ Get(response[t].drift).rows[11].pval = 4
        /\ Get(response[t].drift).rows[11].flagged

\* C6: a form of nine integer literals passes validation iff 0 <= Age <= 120,
\* 0 <= Fare <= 10000, Pclass is 1, 2 or 3 and Familysize >= 0.
AllIntegers(data) == \A f \in FieldSet : data[f].kind = "int"
Passed(t) == features[t] # <<>>

C6_IntegerBounds ==
    \A t \in Threads :
        (pc[t] # "idle" /\ AllIntegers(form[t])) =>
            (Passed(t) <=>
                /\ 0 <= form[t]["Age"].h \div 2 /\ form[t]["Age"].h \div 2 <= 120
                /\ 0 <= form[t]["Fare"].h \div 2 /\ form[t]["Fare"].h \div 2 <= 10000
                /\ form[t]["Pclass"].h \div 2 \in {1, 2, 3}
                /\ form[t]["Familysize"].h \div 2 >= 0)

C6_Witness ==
    \E t \in Threads :
        /\ pc[t] = "drift"
        /\ form[t]["Age"] = IntLit(0)
        /\ form[t]["Fare"] = IntLit(10000)
        /\ form[t]["Pclass"] = IntLit(3)
        /\ Passed(t)

\* C7: the row handed to the scaler and to the classifier is the request's
\* nine validated fields followed by Pclass * Fare and Age * Fare of those
\* same fields, whatever else the form carries.
C7_DerivedFeatures ==
    \A t \in Threads :
        /\ Passed(t) =>
              /\ Len(features[t]) = 11
              /\ \A i \in 1..Len(FORM_FIELDS) :
                    features[t][i] = Number(form[t][FORM_FIELDS[i]])
              /\ features[t][10] = Number(form[t]["Pclass"]) * Number(form[t]["Fare"])
              /\ features[t][11] = Number(form[t]["Age"]) * Number(form[t]["Fare"])
        /\ \A i \in 1..Len(calls[t]) :
              calls[t][i].fn \in {"scaler.transform", "model.predict", "model.predict_proba"}
                  => /\ Passed(t)
                     /\ calls[t][i].arg = features[t]

C7_Witness ==
    \E t \in Threads :
        /\ Returned(t, "scaler.transform")
        /\ Returned(t, "model.predict")
        /\ form[t]["Pclass"] = IntLit(2)
        /\ form[t]["Pclass_Fare"] = IntLit(999)
        /\ features[t][10] = 144
        /\ features[t][11] = 2088

\* C8: a request ends with exactly one response, either 200 with a prediction
\* and a drift payload and no error, or 400 with an error and neither; and a
\* request under way can always take its next step.
WellFormed(r) ==
    \/ /\ r.status = 200
       /\ r.prediction_label # None
       /\ r.drift # None
       /\ r.error_text = None
    \/ /\ r.status = 400
       /\ r.error_text # None
       /\ r.prediction_label = None
       /\ r.prediction_prob = None
       /\ r.drift = None

C8_OneResponse ==
    \A t \in Threads :
        /\ pc[t] = "done" =>
              /\ WellFormed(response[t])
              /\ TimesCalled(t, "render_template") = 1
              /\ calls[t][Len(calls[t])].fn = "render_template"
        /\ pc[t] # "done" =>
              /\ response[t] = NoResponse
              /\ ~Called(t, "render_template")
        /\ pc[t] = "drift" =>
              ENABLED (\E s \in BOOLEAN, d \in DetectorOutcomes : DriftCheck(t, s, d))
        /\ pc[t] = "infer" => ENABLED (\E o \in ClassifierOutcomes : Inference(t, o))
        /\ pc[t] = "present" => ENABLED (\E o \in ProbaOutcomes : Respond(t, o))

C8_Witness ==
    \E t \in Threads :
        /\ pc[t] = "done"
        /\ response[t].status = 400
        /\ Raised(t, "model.predict")
        /\ drift_payload[t] # None
        /\ response[t].drift = None

\* C9: when Age is valid and Fare is a number outside 0..10000, the response
\* is 400 and its error is the Fare range message, whatever the later fields.
C9_FareOutOfRange ==
    \A t \in Threads :
        (/\ pc[t] # "idle"
         /\ IsNumber(form[t]["Age"])
         /\ 0 <= Number(form[t]["Age"]) /\ Number(form[t]["Age"]) <= 120
         /\ IsNumber(form[t]["Fare"])
         /\ (Number(form[t]["Fare"]) < 0 \/ Number(form[t]["Fare"]) > 10000)) =>
            /\ pc[t] = "done"
            /\ response[t].status = 400
            /\ Get(response[t].error_text).msg = "Fare out of valid range (0-10000)."

C9_Witness ==
    \E t \in Threads :
        /\ pc[t] = "done"
        /\ form[t]["Fare"] = IntLit(50000)
        /\ form[t]["Pclass"] = IntLit(4)
        /\ response[t].status = 400
        /\ Get(response[t].error_text).field = "Fare"

\* C10: when the model has no predict_proba, or predict_proba raises, a
\* request whose classification returned still answers 200 with the label and
\* no probability, and has grown the prediction counter by exactly 1.
C10_ProbabilityOptional ==
    \A t \in Threads :
        (/\ pc[t] = "done"
         /\ Returned(t, "model.predict")
         /\ (~model_has_proba \/ Raised(t, "model.predict_proba"))) =>
            /\ response[t].status = 200
            /\ response[t].prediction_label = Some(PredictionLabel(Get(yhat[t])))
            /\ response[t].prediction_prob = None
            /\ incP[t] = 1

C10_Witness ==
    \E t \in Threads :
        /\ pc[t] = "done"
        /\ model_has_proba
        /\ Raised(t, "model.predict_proba")
        /\ response[t].status = 200
        /\ response[t].prediction_label = Some("SURVIVED")
        /\ response[t].prediction_prob = None

\* C11 as stated: when the detector returns a result without p-values or
\* without is_drift (and the classifier returns), the response is 200, its
\* payload's is_drift is false, its table is empty and the request has not
\* grown the drift counter.
AnomalousResult(t) ==
    /\ drift_payload[t] # None
    /\ (drift_data[t].p_val = None \/ drift_data[t].is_drift = None)

C11_AnomalyMeansNoDrift ==
    \A t \in Threads :
        (pc[t] = "done" /\ AnomalousResult(t) /\ Returned(t, "model.predict")) =>
            /\ response[t].status = 200
            /\ ~Get(response[t].drift).is_drift
            /\ Get(response[t].drift).rows = <<>>
            /\ incD[t] = 0

\* C11 as amended: a result without p-values or without is_drift does not
\* fail the request, which goes on to the classifier and answers 200 when the
\* classifier returns; the two fields are read apart: without p-values the
\* table is empty, without is_drift the payload's is_drift is false and the
\* drift counter is left alone, and an is_drift of 1 that comes without
\* p-values is still shown and counted.
C11_AnomalyReadPerField ==
    \A t \in Threads :
        AnomalousResult(t) =>
            LET d == Get(drift_payload[t]) IN
            /\ pc[t] \in {"infer", "present", "done"}
            /\ pc[t] = "done" => Called(t, "model.predict")
            /\ (pc[t] = "done" /\ Returned(t, "model.predict")) =>
                  /\ response[t].status = 200
                  /\ response[t].drift = drift_payload[t]
            /\ drift_data[t].p_val = None =>
                  /\ d.rows = <<>>
                  /\ d.flagged_features = <<>>
            /\ drift_data[t].is_drift = None =>
                  /\ ~d.is_drift
                  /\ incD[t] = 0
            /\ drift_data[t].is_drift = Some(1) =>
                  /\ d.is_drift
                  /\ incD[t] = 1

C11_Witness ==
    \E t \in Threads :
        /\ pc[t] = "done"
        /\ response[t].status = 200
        /\ drift_data[t].p_val = None
        /\ drift_data[t].is_drift = Some(1)
        /\ Get(response[t].drift).is_drift
        /\ Get(response[t].drift).rows = <<>>
        /\ incD[t] = 1

\* C12: a request with a valid form whose classifier does not fail answers
\* 200, also when scaler.transform or ksd.predict raises.
C12_DriftNeverBlocks ==
    \A t \in Threads :
        (pc[t] = "done" /\ Passed(t) /\ ~Raised(t, "model.predict")) =>
            response[t].status = 200

\* C13: when model.predict raises, the request answers 400 with the cause,
\* has called the classifier exactly once and has not grown the prediction
\* counter.
C13_ClassifierFailure ==
    \A t \in Threads :
        Raised(t, "model.predict") =>
            /\ pc[t] = "done"
            /\ response[t].status = 400
            /\ Get(response[t].error_text).msg = "model.predict raised"
            /\ TimesCalled(t, "model.predict") = 1
            /\ ~Called(t, "prediction_count.inc")
            /\ ~Called(t, "model.predict_proba")
            /\ yhat[t] = None
            /\ incP[t] = 0

C13_Witness ==
    \E t \in Threads :
        /\ pc[t] = "done"
        /\ Raised(t, "model.predict")
        /\ response[t].status = 400
        /\ incD[t] = 1
        /\ prediction_count = 1

\* C14: the baseline and the detector are each built at most once in the
\* process, and a request is handled only once both have been built: the
\* scaler fitted, the reference sample scaled by it, the detector holding
\* that sample.
C14_BuiltOnceBeforeServing ==
    /\ fits <= 1
    /\ builds <= 1
    /\ (\E t \in Threads : pc[t] # "idle") => phase = "serving"
    /\ phase = "serving" =>
          /\ fits = 1
          /\ builds = 1
          /\ scaler.fitted
          /\ historical_data.scaled_by = scaler
          /\ ksd.built
          /\ ksd.x_ref = historical_data

C14_Witness ==
    \E t \in Threads :
        /\ pc[t] = "done"
        /\ response[t].status = 200
        /\ prediction_count = 2
        /\ fits = 1
        /\ builds = 1

\* C15: when the feature store holds no entity, or an entity of it has no
\* feature dictionary or a dictionary without one of the 11 features, the
\* baseline is not built and no request is ever handled.
LacksColumn(st) ==
    \E id \in DOMAIN st.entities :
        \/ st.entities[id] = None
        \/ Get(st.entities[id]) # FeatureSet

C15_BadStoreNeverServes ==
    (DOMAIN store.entities = {} \/ LacksColumn(store)) =>
        /\ phase \in {"import", "failed"}
        /\ fits = 0
        /\ \A t \in Threads : pc[t] = "idle"

\* C16: a reference sample of fewer than 2 rows is refused at start-up: no
\* detector is built on it and no request is handled.
C16_SmallReferenceRejected ==
    Cardinality(DOMAIN store.entities) < 2 =>
        /\ ~ksd.built
        /\ phase # "serving"
        /\ \A t \in Threads : pc[t] = "idle"

\* C17: no step of GET /, POST /predict or GET /metrics, nor any other step
\* of the process, lowers or resets prediction_count or drift_count.
C17_CountersNeverDecrease ==
    [][prediction_count' >= prediction_count /\ drift_count' >= drift_count]_vars

C17_Witness ==
    \E t \in Threads :
        /\ pc[t] = "sent"
        /\ get_view[t].route = "/metrics"
        /\ get_view[t].metrics = Some([prediction_count |-> 2, drift_count |-> 1])
        /\ classified = 2

\* C18: with requests running at once, no increment is lost and none is
\* made twice: at every moment prediction_count is the number of requests,
\* finished or under way, whose classification has returned, and drift_count
\* the number whose drift test gave an is_drift of 1; so when all of them
\* have completed the counters have grown by exactly those numbers.
C18_NoLostIncrement ==
    /\ prediction_count =
          classified + Cardinality({t \in AllThreads : yhat[t] # None})
    /\ drift_count =
          drifted + Cardinality({t \in AllThreads : drift_data[t].is_drift = Some(1)})
    /\ (\A t \in AllThreads : pc[t] = "idle") =>
          /\ prediction_count = classified
          /\ drift_count = drifted

C18_Witness ==
    /\ \A t \in AllThreads : pc[t] = "present" /\ incP[t] = 1 /\ incD[t] = 1
    /\ prediction_count = 2
    /\ drift_count = 2

\* C19: GET / answers 200 with the empty page, no prediction and no drift
\* report, whatever was served before it, and grows neither counter.
C19_HomeIsEmpty ==
    \A t \in Threads :
        (pc[t] = "sent" /\ get_view[t].route = "/") =>
            /\ get_view[t].status = 200
            /\ get_view[t].prediction_label = None
            /\ get_view[t].drift = None
            /\ get_view[t].metrics = None
            /\ response[t] = NoResponse
            /\ incP[t] = 0
            /\ incD[t] = 0

C19_Witness ==
    \E t \in Threads :
        /\ pc[t] = "sent"
        /\ get_view[t].route = "/"
        /\ get_view[t].drift = None
        /\ classified = 2
        /\ drifted = 2

\* C20 as stated: the stages run in order and the drift counter and the
\* prediction counter are both updated only after model.predict has returned.
PrecededBy(t, i, fn) ==
    \E j \in 1..(i - 1) : calls[t][j].fn = fn /\ calls[t][j].res = "returned"

C20_CountersAfterInference ==
    \A t \in Threads :
        \A i \in 1..Len(calls[t]) :
            calls[t][i].fn \in {"drift_count.inc", "prediction_count.inc"}
                => PrecededBy(t, i, "model.predict")

\* C20 as amended: a request's stages run in the order validation, feature
\* build, scaling, drift test, drift-counter update, inference,
\* prediction-counter update, presentation, none starting before the one
\* before it has completed; so the prediction counter is updated only after
\* inference has completed, and the drift counter after the drift test and
\* before inference starts.
StageOf(fn) ==
    CASE fn = "scaler.transform" -> 1
      [] fn = "ksd.predict" -> 2
      [] fn = "drift_count.inc" -> 3
      [] fn = "model.predict" -> 4
      [] fn = "prediction_count.inc" -> 5
      [] fn = "model.predict_proba" -> 6
      [] fn = "render_template" -> 7

C20_StageOrder ==
    \A t \in Threads :
        /\ \A i, j \in 1..Len(calls[t]) :
              i < j => StageOf(calls[t][i].fn) < StageOf(calls[t][j].fn)
        /\ \A i \in 1..Len(calls[t]) :
              LET fn == calls[t][i].fn IN
              /\ fn = "scaler.transform" => Passed(t)
              /\ fn = "ksd.predict" => PrecededBy(t, i, "scaler.transform")
              /\ fn = "drift_count.inc" => PrecededBy(t, i, "ksd.predict")
              /\ fn = "model.predict" => PrecededBy(t, i, "ksd.predict")
              /\ fn = "prediction_count.inc" => PrecededBy(t, i, "model.predict")
              /\ fn = "model.predict_proba" => PrecededBy(t, i, "prediction_count.inc")
        /\ (pc[t] = "done" /\ response[t].status = 200) =>
              /\ PrecededBy(t, Len(calls[t]), "prediction_count.inc")
              /\ calls[t][Len(calls[t])].fn = "render_template"

C20_Witness ==
    \E t \in Threads :
        /\ pc[t] = "done"
        /\ response[t].status = 200
        /\ Len(calls[t]) = 7
        /\ calls[t][3].fn = "drift_count.inc"
        /\ calls[t][4].fn = "model.predict"

\* C21: once the process serves, the fitted transform and the reference
\* sample are those start-up built from the feature store, whatever requests
\* have been handled since, and the transform a request's row is scaled with
\* (the module's scaler) is the one that scaled the reference sample the
\* detector holds.
C21_BaselineNeverMutated ==
    phase = "serving" =>
        /\ scaler = FitScaler(ReferenceFrame(store))
        /\ historical_data = ScaledReference(FitScaler(ReferenceFrame(store)),
                                             ReferenceFrame(store))
        /\ ksd.x_ref = historical_data
        /\ ksd.x_ref.scaled_by = scaler

C21_Witness ==
    \E t \in Threads :
        /\ pc[t] = "drift"
        /\ classified = 1
        /\ prediction_count = 1
        /\ drift_count = 1
        /\ scaler.fitted
        /\ ksd.x_ref.scaled_by = scaler

\* C27: a request whose detector reported drift and whose classifier then
\* raised answers 400 without a drift payload and has grown the drift counter
\* by 1 and the prediction counter by 0; nothing takes the increment back.
C27_DriftCountedBeforeClassifier ==
    \A t \in Threads :
        /\ \A i \in 1..Len(calls[t]) :
              calls[t][i].fn = "model.predict" =>
                  (drift_data[t].is_drift = Some(1) <=>
                      \E j \in 1..(i - 1) : calls[t][j].fn = "drift_count.inc")
        /\ (drift_data[t].is_drift = Some(1) /\ Raised(t, "model.predict")) =>
              /\ pc[t] = "done"
              /\ response[t].status = 400
              /\ response[t].drift = None
              /\ incD[t] = 1
              /\ incP[t] = 0

C27_Witness ==
    \E t \in Threads :
        /\ pc[t] = "done"
        /\ drift_data[t].is_drift = Some(1)
        /\ Raised(t, "model.predict")
        /\ response[t].status = 400
        /\ drift_count > prediction_count

\* C28: Age, Fare and Familysize are cut toward zero before their bounds are
\* checked: with the other fields valid, a decimal strictly between -1 and 0
\* is taken as 0, an Age strictly between 120 and 121 as 120 and a Fare
\* strictly between 10000 and 10001 as 10000; the nine fields, the derived
\* features and the row given to the model hold the cut integers.
CutTowardZero(h, v) ==
    IF h >= 0 THEN 2 * v <= h /\ h < 2 * v + 2
    ELSE 2 * v - 2 < h /\ h <= 2 * v

OthersValid(data, f) == \A g \in FieldSet \ {f} : ~Rejected(data[g], g)

C28_TruncatedBeforeBounds ==
    \A t \in Threads :
        InPredict(t) =>
            /\ \A f \in {"Age", "Fare", "Familysize"} :
                  LET raw == form[t][f] IN
                  /\ (raw.kind = "dec" /\ -2 < raw.h /\ raw.h < 0
                        /\ OthersValid(form[t], f)) =>
                          Passed(t) /\ fields[t][f] = 0
                  /\ (f = "Age" /\ raw.kind = "dec" /\ 240 < raw.h /\ raw.h < 242
                        /\ OthersValid(form[t], f)) =>
                          Passed(t) /\ fields[t][f] = 120
                  /\ (f = "Fare" /\ raw.kind = "dec" /\ 20000 < raw.h
                        /\ raw.h < 20002 /\ OthersValid(form[t], f)) =>
                          Passed(t) /\ fields[t][f] = 10000
                  /\ Passed(t) => CutTowardZero(raw.h, fields[t][f])
            /\ Passed(t) =>
                  /\ \A i \in 1..Len(FORM_FIELDS) :
                        features[t][i] = fields[t][FORM_FIELDS[i]]
                  /\ features[t][10] = fields[t]["Pclass"] * fields[t]["Fare"]
                  /\ features[t][11] = fields[t]["Age"] * fields[t]["Fare"]
                  /\ \A i \in 1..Len(calls[t]) :
                        calls[t][i].fn = "model.predict" =>
                            calls[t][i].arg = features[t]

C28_Witness ==
    \E t \in Threads :
        /\ Returned(t, "model.predict")
        /\ form[t]["Age"] = DecLit(241)
        /\ form[t]["Fare"] = DecLit(20001)
        /\ form[t]["Familysize"] = DecLit(-1)
        /\ fields[t]["Familysize"] = 0
        /\ features[t][10] = 10000
        /\ features[t][11] = 1200000

\* C29: a request that leaves out one of the nine fields, or gives anything
\* but an integer literal for Pclass, Sex, Embarked, Isalone, HasCabin or
\* Title, answers 400, calls neither the scaler, the detector nor the
\* classifier, grows neither counter, and reports the first failing field in
\* the order Age, Fare, Pclass, Sex, Embarked, Familysize, Isalone, HasCabin,
\* Title.
IntegerOnly == {"Pclass", "Sex", "Embarked", "Isalone", "HasCabin", "Title"}

Malformed(data) ==
    \/ \E f \in FieldSet : data[f].kind = "missing"
    \/ \E f \in IntegerOnly : data[f].kind # "int"

FirstRejected(data) ==
    FORM_FIELDS[CHOOSE i \in 1..Len(FORM_FIELDS) :
                    /\ Rejected(data[FORM_FIELDS[i]], FORM_FIELDS[i])
                    /\ \A j \in 1..(i - 1) :
                          ~Rejected(data[FORM_FIELDS[j]], FORM_FIELDS[j])]

C29_MalformedFieldRejected ==
    \A t \in Threads :
        (InPredict(t) /\ Malformed(form[t])) =>
            /\ pc[t] = "done"
            /\ response[t].status = 400
            /\ Get(response[t].error_text).field = FirstRejected(form[t])
            /\ \A i \in 1..Len(calls[t]) : calls[t][i].fn = "render_template"
            /\ incP[t] = 0
            /\ incD[t] = 0

C29_Witness ==
    \E t \in Threads :
        /\ pc[t] = "done"
        /\ form[t]["Pclass"] = DecLit(2)
        /\ form[t]["Sex"] = Missing
        /\ response[t].status = 400
        /\ Get(response[t].error_text).field = "Pclass"
        /\ Get(response[t].error_text).msg = "invalid literal for int() with base 10"
        /\ prediction_count = 1

\* C22: one column order, that of FEATURE_NAMES, is used by the reference
\* frame, by the request's row, by the labels of the detector's p-values and
\* by the dictionaries the pipeline writes to the feature store, whose keys
\* (without Survived) are the columns the model is trained on.
ProbeFields ==
    [f \in FieldSet |->
        CHOOSE i \in 1..Len(FORM_FIELDS) : FORM_FIELDS[i] = f]

ProbeValue(column) ==
    CASE column = "Pclass_Fare" -> ProbeFields["Pclass"] * ProbeFields["Fare"]
      [] column = "Age_Fare" -> ProbeFields["Age"] * ProbeFields["Fare"]
      [] OTHER -> ProbeFields[column]

PipelineWrote ==
    /\ last_call.op \in {"run", "store_feature_in_redis"}
    /\ last_call.sets > 0

C22_OneColumnOrder ==
    /\ \A i \in 1..Len(FEATURE_NAMES) :
          /\ BuildFeatures(ProbeFields)[i] = ProbeValue(FEATURE_NAMES[i])
          /\ DriftRows(Some(PVector(Len(FEATURE_NAMES), i, 44)))[i].feature
                = FEATURE_NAMES[i]
    /\ ReferenceColumns = FEATURE_NAMES
    /\ PipelineWrote =>
          \A i \in 1..last_call.sets :
              LET got == ClientGet(redis, <<TrainRows[i]>>) IN
              /\ got # None
              /\ TrainingColumns(Get(got)) = ReferenceColumns

C22_Witness ==
    /\ last_call.op = "run"
    /\ last_call.exc = None
    /\ last_call.sets = 2
    /\ TrainingColumns(Get(ClientGet(redis, <<"2">>))) = FEATURE_NAMES
    /\ Get(ClientGet(redis, <<"2">>))[12].key = "Survived"

\* Python's == on two values that are not the same object: nan equals
\* nothing, a tuple does not equal a list
PyEq(u, v) == u.k # "nan" /\ v.k # "nan" /\ u = v

DictEq(a, b) ==
    /\ {a[i].key : i \in 1..Len(a)} = {b[i].key : i \in 1..Len(b)}
    /\ \A i \in 1..Len(a), j \in 1..Len(b) :
          a[i].key = b[j].key => PyEq(a[i].val, b[j].val)

GotFeatures == last_call.op = "get_features" /\ last_call.exc = None

\* C23 as stated: get_features(id) returns a dictionary equal to the one
\* last stored for id, and None for an id never stored.
C23_RoundTripEqual ==
    GotFeatures =>
        IF last_call.arg \in DOMAIN written
        THEN /\ last_call.ret # None
             /\ DictEq(Get(last_call.ret), written[last_call.arg])
        ELSE last_call.ret = None

\* C23 as amended: get_features(id) returns the JSON image of the dictionary
\* last stored for id (the same keys in the same order; ints, floats and
\* lists as stored, a tuple as the list of its items, nan as a nan), which
\* is equal to the stored dictionary when that holds no tuple and no nan;
\* it returns None for an id never stored; and what is stored under one id
\* is not changed by a store under another.
JsonFaithful(f) == \A i \in 1..Len(f) : f[i].val.k \in {"int", "float", "list"}

C23_RoundTripJsonImage ==
    /\ GotFeatures =>
          IF last_call.arg \in DOMAIN written
          THEN LET f == written[last_call.arg] IN
               /\ last_call.ret # None
               /\ Len(Get(last_call.ret)) = Len(f)
               /\ \A i \in 1..Len(f) :
                     LET g == Get(last_call.ret)[i] IN
                     /\ g.key = f[i].key
                     /\ f[i].val.k \in {"int", "float", "list"} => g.val = f[i].val
                     /\ f[i].val.k = "tuple" => g.val = PyList(f[i].val.items)
                     /\ f[i].val.k = "nan" => g.val.k = "nan"
               /\ JsonFaithful(f) => DictEq(Get(last_call.ret), f)
          ELSE last_call.ret = None
    /\ \A id \in EntityIds :
          IF id \in DOMAIN written
          THEN /\ ClientGet(redis, id) # None
               /\ Len(Get(ClientGet(redis, id))) = Len(written[id])
               /\ \A i \in 1..Len(written[id]) :
                     Get(ClientGet(redis, id))[i].key = written[id][i].key
          ELSE ClientGet(redis, id) = None

C23_Witness ==
    /\ GotFeatures
    /\ last_call.arg = <<"a", "b">>
    /\ DOMAIN written = {<<"a">>, <<"a", "b">>}
    /\ written[<<"a", "b">>] = OtherFeatures
    /\ DictEq(Get(last_call.ret), OtherFeatures)
    /\ written[<<"a">>] = TupleFeatures

\* C24: get_all_entity_ids returns exactly the ids that are stored, and
\* get_features finds the features of each id it returns, also for an id
\* that holds a ':'.
C24_AllStoredIdsReturned ==
    (last_call.op = "get_all_entity_ids" /\ last_call.exc = None) =>
        /\ {last_call.ret[i] : i \in 1..Len(last_call.ret)} = DOMAIN written
        /\ \A i \in 1..Len(last_call.ret) : ClientGet(redis, last_call.ret[i]) # None

\* C25: a feature store method that finds Redis failing raises
\* CustomException carrying the cause.
C25_FailureIsCustomException ==
    (/\ last_call.op \in {"store_features", "get_features", "store_batch_features",
                          "get_batch_features", "get_all_entity_ids"}
     /\ last_call.exc # None) =>
        Get(last_call.exc).type = "CustomException"

\* C26: run enters load_data, preprocess_data, handle_imbalance_data and
\* store_feature_in_redis in that order, each at most once; the stage that
\* raises is the last one entered, nothing is written to the store unless
\* store_feature_in_redis was entered, and run raises CustomException; and
\* preprocess_data, handle_imbalance_data or store_feature_in_redis called
\* while no training data is loaded raises CustomException and writes
\* nothing.
StageOrder ==
    <<"load_data", "preprocess_data", "handle_imbalance_data",
      "store_feature_in_redis">>

C26_RunStagesInOrder ==
    /\ last_call.op = "run" =>
          /\ Len(last_call.log) \in 1..Len(StageOrder)
          /\ last_call.log = SubSeq(StageOrder, 1, Len(last_call.log))
          /\ last_call.failed_at = "" <=> last_call.exc = None
          /\ last_call.exc = None =>
                /\ last_call.log = StageOrder
                /\ last_call.sets = Len(TrainRows)
          /\ last_call.exc # None =>
                /\ Get(last_call.exc).type = "CustomException"
                /\ last_call.log[Len(last_call.log)] = last_call.failed_at
                /\ last_call.failed_at # "store_feature_in_redis" =>
                      last_call.sets = 0
    /\ (/\ last_call.op \in {"preprocess_data", "handle_imbalance_data",
                             "store_feature_in_redis"}
        /\ last_call.arg = <<"none">>) =>
          /\ last_call.exc # None
          /\ Get(last_call.exc).type = "CustomException"
          /\ last_call.sets = 0

C26_Witness ==
    /\ last_call.op = "run"
    /\ last_call.failed_at = "handle_imbalance_data"
    /\ Len(last_call.log) = 3
    /\ last_call.sets = 0
    /\ DOMAIN redis = {}
    /\ dp.data = "engineered"

====
